---- MODULE Spec2Model ----
(***************************************************************************)
(* Model of the CSV geocoding page (src/src/app/page.tsx): the React state *)
(* of GeocodingApp, the handlers handleFileUpload and processFile, and the *)
(* asynchronous row loop that processFile starts from Papa.parse's         *)
(* `complete` callback.                                                    *)
(*                                                                         *)
(* Every invocation of processFile is a closure of its own: it captures    *)
(* file, apiKey and the three column selections of the render it was       *)
(* created in, and owns the locals results / processed / i.  run[r] is the *)
(* closure of the r-th invocation that passed the configuration checks.    *)
(*                                                                         *)
(* apiKey, addressCol, cityCol and countryCol are read by processFile      *)
(* only; their setters have no guard and no other effect, so the values    *)
(* they hold at the click are the inputs of processFile.  `headers` is     *)
(* read by the rendering only and is left out.                             *)
(***************************************************************************)
EXTENDS Naturals, Sequences, FiniteSets, TLC

VARIABLES file, processing, progress, error, results, geocodedData,
          run, nRuns, inflight

vars == <<file, processing, progress, error, results, geocodedData,
          run, nRuns, inflight>>

(* ------------------------------ bounds -------------------------------- *)

\* Number of data rows of the longest uploaded table.
MaxRows == 3

\* Number of processFile invocations that get past the configuration checks.
MaxRuns == 2

RunIds == 1..MaxRuns

(* ------------------------------ values -------------------------------- *)

\* useState<File | null>(null): no file chosen yet.
NoFile == "null"

\* results and geocodedData are null or hold a value: Null, or Some(v).
Null == <<>>
Some(v) == <<v>>

\* A cell is a JavaScript value: a string (every parsed CSV cell) or a
\* number (a coordinate of the geocoding response).
Str(s) == [t |-> "string", s |-> s, n |-> 0]
Num(n) == [t |-> "number", s |-> "", n |-> n]

\* JavaScript truthiness of a cell: a string is truthy unless empty, a
\* number unless 0.
Truthy(v) == IF v.t = "string" THEN v.s # "" ELSE v.n # 0

\* String(v) for the values that reach Array.prototype.join.
ToStr(v) == IF v.t = "string" THEN v.s ELSE ToString(v.n)

(* --------------------------- uploaded tables -------------------------- *)

Streets == <<"1 Main St", "5 Oak Ave", "9 Elm Rd", "3 Bay Dr">>

\* Row k of table "A": an address on odd rows, a city on rows 1, 5, 9, ...;
\* the even rows have neither.
RowA(k) ==
    [Id      |-> Str(ToString(k)),
     Address |-> Str(IF k % 2 = 1 THEN Streets[((k - 1) % Len(Streets)) + 1] ELSE ""),
     City    |-> Str(IF k % 4 = 1 THEN "Springfield" ELSE "")]

\* Table "B": one row, a Country column but no City column, and a Latitude
\* column of its own.
RowB ==
    [Id |-> Str("1"), Address |-> Str("7 Pine Ct"), Country |-> Str("France"),
     Latitude |-> Str("0.5")]

Files == {"A", "B", "E"}

\* What Papa.parse(file, {header: true, skipEmptyLines: true}) hands to
\* `complete` as data: one object per data row, keyed by the header line.
Parse(f) ==
    CASE f = "A" -> [k \in 1..MaxRows |-> RowA(k)]
      [] f = "B" -> <<RowB>>
      [] OTHER   -> <<>>

(* ------------------------------ inputs -------------------------------- *)

ApiKeys == {"", "KEY"}

\* The column selections a click may find in addressCol, cityCol, countryCol.
Selections ==
    { [addressCol |-> "Address", cityCol |-> "City", countryCol |-> ""],
      [addressCol |-> "Address", cityCol |-> "",     countryCol |-> ""],
      [addressCol |-> "",        cityCol |-> "City", countryCol |-> ""],
      [addressCol |-> "",        cityCol |-> "",     countryCol |-> "Country"],
      [addressCol |-> "",        cityCol |-> "",     countryCol |-> ""] }

\* What one fetch + response.json() can do: reject (network error), resolve
\* to a body that is no JSON, or resolve to a JSON document with a status
\* and a list of results; a result carries geometry.location or lacks it.
Responses ==
    { [kind |-> "json", status |-> "OK",
       results |-> <<[geometry |-> TRUE, lat |-> 1, lng |-> 2],
                     [geometry |-> TRUE, lat |-> 3, lng |-> 4]>>],
      [kind |-> "json", status |-> "OK",
       results |-> <<[geometry |-> FALSE, lat |-> 0, lng |-> 0]>>],
      [kind |-> "json", status |-> "OK", results |-> <<>>],
      [kind |-> "json", status |-> "ZERO_RESULTS", results |-> <<>>],
      [kind |-> "reject", status |-> "Failed to fetch", results |-> <<>>],
      [kind |-> "badjson", status |-> "Unexpected token <", results |-> <<>>] }

(* ------------------------- the geocoding client ----------------------- *)

\* geocodeAddress without its test of data.status.
geocodeAddressAnyStatus(resp) ==
    IF resp.kind # "json"
    THEN [threw |-> TRUE, message |-> resp.status, data |-> resp]
    ELSE [threw |-> FALSE, message |-> "", data |-> resp]

\* geocodeAddress, as seen by its caller's try/catch: the awaited promise
\* rejects (threw) with a message, or resolves to the JSON document.
\* fetch rejecting and response.json() rejecting pass through unchanged; a
\* status other than 'OK' throws Error(`Geocoding failed: ${data.status}`).
geocodeAddress(resp) ==
    IF resp.kind # "json"
    THEN [threw |-> TRUE, message |-> resp.status, data |-> resp]
    ELSE IF resp.status # "OK"
    THEN [threw |-> TRUE, message |-> "Geocoding failed: " \o resp.status,
          data |-> resp]
    ELSE [threw |-> FALSE, message |-> "", data |-> resp]

(* ----------------------------- one row -------------------------------- *)

\* Has without the test of the row's value.
HasSelected(row, col) == col # "" /\ col \in DOMAIN row

\* `col && row[col]`: the column is selected, and the row holds a truthy
\* value under it (a column the table does not have reads as undefined).
Has(row, col) == col # "" /\ col \in DOMAIN row /\ Truthy(row[col])

\* locationParts with the city pushed before the address.
locationPartsCityFirst(row, addressCol, cityCol, countryCol) ==
    (IF Has(row, cityCol) THEN <<ToStr(row[cityCol])>> ELSE <<>>)
    \o (IF Has(row, addressCol) THEN <<ToStr(row[addressCol])>> ELSE <<>>)
    \o (IF Has(row, countryCol) THEN <<ToStr(row[countryCol])>> ELSE <<>>)

\* locationParts after the three pushes, already as join will print them.
locationParts(row, addressCol, cityCol, countryCol) ==
    (IF Has(row, addressCol) THEN <<ToStr(row[addressCol])>> ELSE <<>>)
    \o (IF Has(row, cityCol) THEN <<ToStr(row[cityCol])>> ELSE <<>>)
    \o (IF Has(row, countryCol) THEN <<ToStr(row[countryCol])>> ELSE <<>>)

\* locationParts.join(', ')
RECURSIVE join(_)
join(parts) ==
    IF Len(parts) = 0 THEN ""
    ELSE IF Len(parts) = 1 THEN parts[1]
    ELSE parts[1] \o ", " \o join(Tail(parts))

\* WithCoordinates with the two coordinates exchanged.
WithCoordinatesSwapped(row, location) ==
    [k \in DOMAIN row \cup {"Latitude", "Longitude"} |->
        IF k = "Latitude" THEN Num(location.lng)
        ELSE IF k = "Longitude" THEN Num(location.lat)
        ELSE row[k]]

\* newRow.Latitude = location.lat; newRow.Longitude = location.lng
WithCoordinates(row, location) ==
    [k \in DOMAIN row \cup {"Latitude", "Longitude"} |->
        IF k = "Latitude" THEN Num(location.lat)
        ELSE IF k = "Longitude" THEN Num(location.lng)
        ELSE row[k]]

\* results.processedRows++
OnResult(res) == [res EXCEPT !.processedRows = @ + 1]

\* OnNoResult pushing the loop index i instead of the row number i + 1.
OnNoResultZeroBased(res, i) == [res EXCEPT !.skippedRows = Append(@, i)]

\* results.skippedRows.push(i + 1), in the else of `response.results?.[0]`
OnNoResult(res, i) == [res EXCEPT !.skippedRows = Append(@, i + 1)]

\* OnCatch without its skippedRows.push.
OnCatchNoSkip(res, i, message, location) ==
    [res EXCEPT !.errors = Append(@, [row |-> i + 1, error |-> message,
                                       location |-> location])]

\* OnCatch recording the loop index i instead of the row number i + 1.
OnCatchZeroBased(res, i, message, location) ==
    [res EXCEPT !.errors = Append(@, [row |-> i, error |-> message,
                                       location |-> location]),
                !.skippedRows = Append(@, i)]

\* The catch block: results.errors.push({...}); results.skippedRows.push(i + 1)
OnCatch(res, i, message, location) ==
    [res EXCEPT !.errors = Append(@, [row |-> i + 1, error |-> message,
                                       location |-> location]),
                !.skippedRows = Append(@, i + 1)]

\* OnNoLocation with the push forgotten.
OnNoLocationForgotten(res, i) == res

\* The else of `locationParts.length > 0`: results.skippedRows.push(i + 1)
OnNoLocation(res, i) == [res EXCEPT !.skippedRows = Append(@, i + 1)]

\* The TypeError of reading results[0].geometry.location when the first
\* result has no geometry.
NoGeometry == "Cannot read properties of undefined (reading 'location')"

\* The try/catch of one row once the awaited geocodeAddress has settled
\* with resp: the closure with its tally updated and newRow in `newRow`.
AfterGeocode(rec, resp) ==
    LET g     == geocodeAddress(resp)
        row   == rec.data[rec.i + 1]
        parts == locationParts(row, rec.addressCol, rec.cityCol, rec.countryCol)
    IN  IF ~g.threw
        THEN IF Len(g.data.results) > 0
             THEN IF g.data.results[1].geometry
                  THEN [rec EXCEPT
                           !.newRow = WithCoordinates(row, g.data.results[1]),
                           !.results = OnResult(@)]
                  ELSE [rec EXCEPT
                           !.newRow = row,
                           !.results = OnCatch(@, rec.i, NoGeometry, join(parts))]
             ELSE [rec EXCEPT !.newRow = row,
                              !.results = OnNoResult(@, rec.i)]
        ELSE [rec EXCEPT !.newRow = row,
                         !.results = OnCatch(@, rec.i, g.message, join(parts))]

\* Percent computed from the loop index i instead of i + 1.
PercentOfIndex(n, d) == [num |-> (n - 1) * 100, den |-> d]

\* (i + 1) / data.length * 100, kept exact as a fraction.
Percent(n, d) == [num |-> n * 100, den |-> d]

(* ---------------------------- the closures ---------------------------- *)

NoRow == [Id |-> Str("")]

\* A processFile closure that does not exist (never created, or dropped).
IdleRun ==
    [pc |-> "idle", file |-> NoFile, apiKey |-> "",
     addressCol |-> "", cityCol |-> "", countryCol |-> "",
     data |-> <<>>, i |-> 0, newRow |-> NoRow,
     results |-> [totalRows |-> 0, processedRows |-> 0,
                  skippedRows |-> <<>>, errors |-> <<>>],
     processed |-> <<>>, sent |-> <<>>, replies |-> <<>>]

Init ==
    /\ file = NoFile
    /\ processing = FALSE
    /\ progress = [num |-> 0, den |-> 1]
    /\ error = ""
    /\ results = Null
    /\ geocodedData = Null
    /\ run = [r \in RunIds |-> IdleRun]
    /\ nRuns = 0
    /\ inflight = {}

(* ------------------------------ handlers ------------------------------ *)

\* handleFileUpload with a file chosen (with none it returns at once).
handleFileUpload(f) ==
    /\ file' = f
    /\ error' = ""
    /\ results' = Null
    /\ geocodedData' = Null
    /\ UNCHANGED <<processing, progress, run, nRuns, inflight>>

\* The closure of a new invocation; a closure that has ended is dropped.
Started(sel, key) ==
    [r \in RunIds |->
        IF r = nRuns + 1
        THEN [IdleRun EXCEPT !.pc = "parsing", !.file = file, !.apiKey = key,
                             !.addressCol = sel.addressCol,
                             !.cityCol = sel.cityCol,
                             !.countryCol = sel.countryCol]
        ELSE IF run[r].pc \in {"done", "failed"} THEN IdleRun ELSE run[r]]

\* The button disabled by !file alone.
ButtonIgnoresProcessing == file # NoFile

\* The button is rendered with disabled={processing || !file}.
ButtonEnabled == ~processing /\ file # NoFile

NoFileOrColumn == "Please select a file and at least one location column"
NoApiKey == "Please enter your Google Maps API Key"

\* checkConfig without the check of apiKey.
checkConfigNoKey(f, sel, key) ==
    IF f = NoFile
       \/ (sel.addressCol = "" /\ sel.cityCol = "" /\ sel.countryCol = "")
    THEN NoFileOrColumn
    ELSE ""

\* The two checks processFile starts with: the message of the one that
\* returns early, "" when both pass.
checkConfig(f, sel, key) ==
    IF f = NoFile
       \/ (sel.addressCol = "" /\ sel.cityCol = "" /\ sel.countryCol = "")
    THEN NoFileOrColumn
    ELSE IF key = "" THEN NoApiKey
    ELSE ""

\* A click on "Process File": processFile up to the call of Papa.parse.
processFile(sel, key) ==
    /\ ButtonEnabled
    /\ IF checkConfig(file, sel, key) # ""
       THEN /\ error' = checkConfig(file, sel, key)
            /\ UNCHANGED <<file, processing, progress, results, geocodedData,
                           run, nRuns, inflight>>
       ELSE /\ nRuns < MaxRuns
            /\ processing' = TRUE
            /\ error' = ""
            /\ progress' = [num |-> 0, den |-> 1]
            /\ run' = Started(sel, key)
            /\ nRuns' = nRuns + 1
            /\ UNCHANGED <<file, results, geocodedData, inflight>>

\* push writing at the front (unshift).
pushFront(processed, newRow) == <<newRow>> \o processed

\* processed.push(newRow)
push(processed, newRow) == Append(processed, newRow)

\* EndOfRow publishing the tally and the records after every row.
EndOfRowPublishing(r, rec) ==
    /\ run' = [run EXCEPT ![r] = [rec EXCEPT !.processed = push(@, rec.newRow),
                                             !.pc = "delay"]]
    /\ progress' = Percent(rec.i + 1, Len(rec.data))
    /\ results' = Some(rec.results)
    /\ geocodedData' = Some(push(rec.processed, rec.newRow))
    /\ UNCHANGED <<file, processing, error, nRuns>>

\* EndOfRow starting no timer after the last row: the loop is left at once.
EndOfRowNoLastTimer(r, rec) ==
    IF rec.i + 1 < Len(rec.data)
    THEN /\ run' = [run EXCEPT ![r] =
                      [rec EXCEPT !.processed = push(@, rec.newRow),
                                  !.pc = "delay"]]
         /\ progress' = Percent(rec.i + 1, Len(rec.data))
         /\ UNCHANGED <<file, processing, error, results, geocodedData, nRuns>>
    ELSE /\ run' = [run EXCEPT ![r] =
                      [rec EXCEPT !.processed = push(@, rec.newRow),
                                  !.i = @ + 1, !.pc = "done"]]
         /\ progress' = Percent(rec.i + 1, Len(rec.data))
         /\ results' = Some(rec.results)
         /\ geocodedData' = Some(push(rec.processed, rec.newRow))
         /\ processing' = FALSE
         /\ UNCHANGED <<file, error, nRuns>>

\* The end of an iteration: processed.push(newRow); setProgress(...); and the
\* 200 ms timer is started.
EndOfRow(r, rec) ==
    /\ run' = [run EXCEPT ![r] = [rec EXCEPT !.processed = push(@, rec.newRow),
                                             !.pc = "delay"]]
    /\ progress' = Percent(rec.i + 1, Len(rec.data))
    /\ UNCHANGED <<file, processing, error, results, geocodedData, nRuns>>

\* The loop from its test `i < data.length` to the next await, or past the
\* loop to setResults / setGeocodedData / setProcessing(false).
LoopHead(r, rec) ==
    IF rec.i < Len(rec.data)
    THEN LET row   == rec.data[rec.i + 1]
             parts == locationParts(row, rec.addressCol, rec.cityCol,
                                    rec.countryCol)
             req   == [run |-> r, row |-> rec.i + 1,
                       address |-> join(parts), key |-> rec.apiKey]
         IN  IF Len(parts) > 0
             THEN /\ run' = [run EXCEPT ![r] =
                               [rec EXCEPT !.pc = "fetch", !.newRow = row,
                                           !.sent = Append(@, req)]]
                  /\ inflight' = inflight \cup {req}
                  /\ UNCHANGED <<file, processing, progress, error, results,
                                 geocodedData, nRuns>>
             ELSE /\ EndOfRow(r, [rec EXCEPT !.newRow = row,
                                    !.results = OnNoLocation(@, rec.i)])
                  /\ UNCHANGED inflight
    ELSE /\ results' = Some(rec.results)
         /\ geocodedData' = Some(rec.processed)
         /\ processing' = FALSE
         /\ run' = [run EXCEPT ![r] = [rec EXCEPT !.pc = "done"]]
         /\ UNCHANGED <<file, progress, error, nRuns, inflight>>

\* Papa.parse calls `complete`: results.totalRows = data.length, i = 0.
ParseComplete(r) ==
    /\ run[r].pc = "parsing"
    /\ LET data == Parse(run[r].file)
       IN  LoopHead(r, [run[r] EXCEPT !.data = data,
                                      !.results.totalRows = Len(data),
                                      !.i = 0])

\* Papa.parse calls `error` (the file can no longer be read).
ParseError(r) ==
    /\ run[r].pc = "parsing"
    /\ error' = "Error processing file: NotReadableError"
    /\ processing' = FALSE
    /\ run' = [run EXCEPT ![r].pc = "failed"]
    /\ UNCHANGED <<file, progress, results, geocodedData, nRuns, inflight>>

\* FetchReturn going on to the next row at once, with no timer in between.
FetchReturnNoDelay(r, resp) ==
    /\ run[r].pc = "fetch"
    /\ \E req \in inflight : req.run = r /\ req.row = run[r].i + 1
    /\ LET rec == AfterGeocode(run[r], resp)
       IN  run[r].i + 1 < Len(run[r].data)
           /\ LET row   == rec.data[rec.i + 2]
                  parts == locationParts(row, rec.addressCol, rec.cityCol,
                                         rec.countryCol)
                  req   == [run |-> r, row |-> rec.i + 2,
                            address |-> join(parts), key |-> rec.apiKey]
              IN  /\ run' = [run EXCEPT ![r] =
                               [rec EXCEPT
                                  !.processed = push(@, rec.newRow),
                                  !.replies = Append(@, [row |-> rec.i + 1,
                                                         resp |-> resp]),
                                  !.i = @ + 1, !.newRow = row,
                                  !.pc = "fetch",
                                  !.sent = Append(@, req)]]
                  /\ inflight' = {req}
                  /\ progress' = Percent(rec.i + 1, Len(rec.data))
                  /\ UNCHANGED <<file, processing, error, results,
                                 geocodedData, nRuns>>

\* FetchReturn without the try/catch: what geocodeAddress throws leaves the
\* `complete` callback, and the run stops where it is.
FetchReturnUncaught(r, resp) ==
    /\ run[r].pc = "fetch"
    /\ \E req \in inflight :
          /\ req.run = r
          /\ req.row = run[r].i + 1
          /\ inflight' = inflight \ {req}
    /\ IF geocodeAddress(resp).threw
       THEN /\ run' = [run EXCEPT ![r].pc = "crashed"]
            /\ UNCHANGED <<file, processing, progress, error, results,
                           geocodedData, nRuns>>
       ELSE EndOfRow(r, [AfterGeocode(run[r], resp) EXCEPT
                            !.replies = Append(@, [row |-> run[r].i + 1,
                                                   resp |-> resp])])

\* The request of run r settles with resp: the rest of the try/catch, then
\* the end of the iteration.
FetchReturn(r, resp) ==
    /\ run[r].pc = "fetch"
    /\ \E req \in inflight :
          /\ req.run = r
          /\ req.row = run[r].i + 1
          /\ inflight' = inflight \ {req}
    /\ EndOfRow(r, [AfterGeocode(run[r], resp) EXCEPT
                       !.replies = Append(@, [row |-> run[r].i + 1,
                                              resp |-> resp])])

\* DelayElapsed repeating the iteration of a row whose call failed.
DelayElapsedRetry(r) ==
    /\ run[r].pc = "delay"
    /\ IF /\ Len(run[r].results.errors) > 0
          /\ run[r].results.errors[Len(run[r].results.errors)].row
               = run[r].i + 1
       THEN LoopHead(r, run[r])
       ELSE LoopHead(r, [run[r] EXCEPT !.i = @ + 1])

\* The 200 ms timer fires: i++, and the loop goes on.
DelayElapsed(r) ==
    /\ run[r].pc = "delay"
    /\ LoopHead(r, [run[r] EXCEPT !.i = @ + 1])

Upload == \E f \in Files : handleFileUpload(f)
Click == \E sel \in Selections, key \in ApiKeys : processFile(sel, key)
Parsed == \E r \in RunIds : ParseComplete(r)
ParseFailed == \E r \in RunIds : ParseError(r)
Replied == \E r \in RunIds, resp \in Responses : FetchReturn(r, resp)
Timer == \E r \in RunIds : DelayElapsed(r)

Next ==
    \/ Upload
    \/ Click
    \/ Parsed
    \/ ParseFailed
    \/ Replied
    \/ Timer

Spec == Init /\ [][Next]_vars

\* Papa.parse ends by calling `complete` or `error`; every fetch settles and
\* every timer fires.  Nothing obliges the user to click or to upload.
FairSpec ==
    /\ Spec
    /\ WF_vars(Parsed \/ ParseFailed)
    /\ WF_vars(Replied)
    /\ WF_vars(Timer)

(* ------------------- the query of every column selection -------------- *)

\* The values a <Select> can put in addressCol, cityCol or countryCol: None
\* or a header of an uploaded table.
Columns == {"", "Address", "City", "Country"}

AllSelections ==
    [addressCol : Columns, cityCol : Columns, countryCol : Columns]

\* The state right after a click that passed the configuration checks, for
\* any uploaded table and any selection of columns with at least one set.
QueryInit ==
    \E f \in Files, sel \in AllSelections :
        /\ checkConfig(f, sel, "KEY") = ""
        /\ file = f
        /\ processing = TRUE
        /\ progress = [num |-> 0, den |-> 1]
        /\ error = ""
        /\ results = Null
        /\ geocodedData = Null
        /\ run = [r \in RunIds |->
                    IF r = 1
                    THEN [IdleRun EXCEPT !.pc = "parsing", !.file = f,
                                         !.apiKey = "KEY",
                                         !.addressCol = sel.addressCol,
                                         !.cityCol = sel.cityCol,
                                         !.countryCol = sel.countryCol]
                    ELSE IdleRun]
        /\ nRuns = 1
        /\ inflight = {}

\* The run of that click, to its end.
QueryNext ==
    \/ Parsed
    \/ Replied
    \/ Timer

QuerySpec == QueryInit /\ [][QueryNext]_vars

(* ------------------------------ claims -------------------------------- *)

\* The run has ended by publishing (setResults, setGeocodedData).
Completed(r) == run[r].pc = "done"

\* The closure exists and Papa.parse has handed it the rows.
InLoop(r) == run[r].pc \in {"fetch", "delay", "done"}

\* Number of places of seq that hold x.
Occurrences(seq, x) == Cardinality({j \in DOMAIN seq : seq[j] = x})

\* The answer is a JSON document with status OK whose result list is not
\* empty and whose first result carries a coordinate pair.
IsResolved(resp) ==
    /\ resp.kind = "json"
    /\ resp.status = "OK"
    /\ Len(resp.results) > 0
    /\ resp.results[1].geometry

\* The service answered row k's request with a resolved location.
ResolvedRow(r, k) ==
    \E j \in DOMAIN run[r].replies :
        run[r].replies[j].row = k /\ IsResolved(run[r].replies[j].resp)

\* C1: in every completed run processedRows + |skippedRows| = totalRows, and
\* every row index 1..totalRows is in exactly one bucket: counted in
\* processedRows (its request was resolved) or listed once in skippedRows.
C1_TallyPartition ==
    \A r \in RunIds : Completed(r) =>
        LET res == run[r].results
        IN  /\ res.totalRows = Len(run[r].data)
            /\ res.processedRows + Len(res.skippedRows) = res.totalRows
            /\ res.processedRows
                 = Cardinality({k \in 1..res.totalRows : ResolvedRow(r, k)})
            /\ \A j \in DOMAIN res.skippedRows :
                   res.skippedRows[j] \in 1..res.totalRows
            /\ \A k \in 1..res.totalRows :
                   IF ResolvedRow(r, k)
                   THEN Occurrences(res.skippedRows, k) = 0
                   ELSE Occurrences(res.skippedRows, k) = 1

\* A completed run over three rows with a resolved row, a row without a
\* location and a row whose request failed.
C1_Witness ==
    \E r \in RunIds :
        /\ Completed(r)
        /\ run[r].results.totalRows = MaxRows
        /\ run[r].results.processedRows >= 1
        /\ Len(run[r].results.errors) >= 1
        /\ Len(run[r].results.skippedRows) >= 2
        /\ results = Some(run[r].results)

\* The columns of a record other than the two the run may add.
OwnColumns(row) == DOMAIN row \ {"Latitude", "Longitude"}

\* C2: in every completed run the output has as many records as the parsed
\* input and the k-th output record is the k-th input record, with nothing
\* but Latitude and Longitude added or set; the published geocodedData is
\* that output.
C2_LengthAndOrder ==
    \A r \in RunIds : Completed(r) =>
        /\ Len(run[r].processed) = Len(run[r].data)
        /\ \A k \in DOMAIN run[r].data :
              /\ OwnColumns(run[r].processed[k]) = OwnColumns(run[r].data[k])
              /\ \A c \in OwnColumns(run[r].data[k]) :
                     run[r].processed[k][c] = run[r].data[k][c]
        /\ geocodedData # Null => geocodedData = Some(run[r].processed)

\* A completed run over three rows that were skipped, resolved and failed.
C2_Witness ==
    \E r \in RunIds :
        /\ Completed(r)
        /\ Len(run[r].data) = MaxRows
        /\ geocodedData = Some(run[r].processed)
        /\ ResolvedRow(r, MaxRows)
        /\ ~ResolvedRow(r, 1)
        /\ Len(run[r].results.errors) = 1

\* C3: in every completed run every row index of errors is in skippedRows,
\* exactly once.
C3_ErrorsAreSkipped ==
    \A r \in RunIds : Completed(r) =>
        \A j \in DOMAIN run[r].results.errors :
            Occurrences(run[r].results.skippedRows,
                        run[r].results.errors[j].row) = 1

\* A completed run with two error entries.
C3_Witness ==
    \E r \in RunIds :
        /\ Completed(r)
        /\ Len(run[r].results.errors) = 2
        /\ Len(run[r].results.skippedRows) = MaxRows

\* Every column the run selected is missing from the record or empty in it.
NoComponent(r, k) ==
    \A col \in {run[r].addressCol, run[r].cityCol, run[r].countryCol} :
        \/ col = ""
        \/ col \notin DOMAIN run[r].data[k]
        \/ run[r].data[k][col] = Str("")

\* Row k of the run has been handled to the end of its iteration.
Handled(r, k) == k \in DOMAIN run[r].processed

\* A request for row k has been issued.
Requested(r, k) == \E j \in DOMAIN run[r].sent : run[r].sent[j].row = k

\* C4: a record whose selected columns are all empty never has a request
\* issued for it and, once handled, is in skippedRows (with no error entry)
\* and is copied unchanged to the output; every handled record that does
\* have a location component had a request issued.
C4_EmptyRowSkipped ==
    \A r \in RunIds : InLoop(r) =>
        /\ \A k \in DOMAIN run[r].data :
              NoComponent(r, k) =>
                  /\ ~Requested(r, k)
                  /\ \A q \in inflight : ~(q.run = r /\ q.row = k)
                  /\ Handled(r, k) =>
                        /\ Occurrences(run[r].results.skippedRows, k) = 1
                        /\ run[r].processed[k] = run[r].data[k]
                        /\ \A j \in DOMAIN run[r].results.errors :
                               run[r].results.errors[j].row # k
        /\ \A k \in DOMAIN run[r].data :
              (Handled(r, k) /\ ~NoComponent(r, k)) => Requested(r, k)

\* Three rows, the selected columns empty on row 2 only: row 2 is skipped
\* without a request, rows 1 and 3 were requested.
C4_Witness ==
    \E r \in RunIds :
        /\ Completed(r)
        /\ Len(run[r].data) = MaxRows
        /\ NoComponent(r, 2)
        /\ ~NoComponent(r, 1)
        /\ ~NoComponent(r, 3)
        /\ Requested(r, 1)
        /\ Requested(r, 3)
        /\ ~Requested(r, 2)
        /\ 2 \in {run[r].results.skippedRows[j] :
                     j \in DOMAIN run[r].results.skippedRows}

\* The error entries of run r for row k.
ErrorsOf(r, k) ==
    {j \in DOMAIN run[r].results.errors : run[r].results.errors[j].row = k}

\* The service answered with the given status (in a JSON document).
HasStatus(resp, status) == resp.kind = "json" /\ resp.status = status

\* C5 as claimed: a row whose request is answered with status ZERO_RESULTS
\* is appended to skippedRows and gets no entry in errors.
C5_Original ==
    \A r \in RunIds : InLoop(r) =>
        \A j \in DOMAIN run[r].replies :
            HasStatus(run[r].replies[j].resp, "ZERO_RESULTS") =>
                /\ Occurrences(run[r].results.skippedRows,
                               run[r].replies[j].row) = 1
                /\ ErrorsOf(r, run[r].replies[j].row) = {}

\* C5 as amended: a row answered with status ZERO_RESULTS is appended to
\* skippedRows and gets one entry in errors, with the message
\* "Geocoding failed: ZERO_RESULTS"; a row answered with status OK and an
\* empty result list is appended to skippedRows and gets no entry in errors.
C5_Amended ==
    \A r \in RunIds : InLoop(r) =>
        \A j \in DOMAIN run[r].replies :
            LET k    == run[r].replies[j].row
                resp == run[r].replies[j].resp
            IN  /\ HasStatus(resp, "ZERO_RESULTS") =>
                      /\ Occurrences(run[r].results.skippedRows, k) = 1
                      /\ Cardinality(ErrorsOf(r, k)) = 1
                      /\ \A e \in ErrorsOf(r, k) :
                             run[r].results.errors[e].error
                                 = "Geocoding failed: ZERO_RESULTS"
                /\ (HasStatus(resp, "OK") /\ Len(resp.results) = 0) =>
                      /\ Occurrences(run[r].results.skippedRows, k) = 1
                      /\ ErrorsOf(r, k) = {}

\* A completed run in which row 1 was answered ZERO_RESULTS and row 3 was
\* answered OK with no result.
C5_Witness ==
    \E r \in RunIds :
        /\ Completed(r)
        /\ \E j \in DOMAIN run[r].replies :
              /\ run[r].replies[j].row = 1
              /\ HasStatus(run[r].replies[j].resp, "ZERO_RESULTS")
        /\ \E j \in DOMAIN run[r].replies :
              /\ run[r].replies[j].row = 3
              /\ HasStatus(run[r].replies[j].resp, "OK")
              /\ Len(run[r].replies[j].resp.results) = 0

\* The call failed: fetch or response.json() rejected, the status is not
\* the success sentinel, or the first result is malformed.
CallFailed(resp) ==
    \/ resp.kind # "json"
    \/ resp.status # "OK"
    \/ (Len(resp.results) > 0 /\ ~resp.results[1].geometry)

\* The text of what the failed call threw.
ThrownText(resp) ==
    IF resp.kind # "json" THEN resp.status
    ELSE IF resp.status # "OK" THEN "Geocoding failed: " \o resp.status
    ELSE "Cannot read properties of undefined (reading 'location')"

\* C6: whenever the call for row k fails, k is appended to skippedRows once
\* and exactly one entry is appended to errors, holding k, the thrown text
\* and the location that was sent for the row; the record is copied
\* unchanged.  Nothing else adds an entry to errors.
C6_FailureRecorded ==
    \A r \in RunIds : InLoop(r) =>
        /\ \A j \in DOMAIN run[r].replies :
              LET k    == run[r].replies[j].row
                  resp == run[r].replies[j].resp
              IN  CallFailed(resp) =>
                     /\ Occurrences(run[r].results.skippedRows, k) = 1
                     /\ Cardinality(ErrorsOf(r, k)) = 1
                     /\ \A e \in ErrorsOf(r, k) :
                            /\ run[r].results.errors[e].error = ThrownText(resp)
                            /\ \E q \in DOMAIN run[r].sent :
                                   /\ run[r].sent[q].row = k
                                   /\ run[r].sent[q].address
                                        = run[r].results.errors[e].location
                     /\ Handled(r, k)
                     /\ run[r].processed[k] = run[r].data[k]
        /\ Len(run[r].results.errors)
             = Cardinality({j \in DOMAIN run[r].replies :
                               CallFailed(run[r].replies[j].resp)})

\* A completed run whose first call was rejected by the network and whose
\* second call returned a body that is no JSON.
C6_Witness ==
    \E r \in RunIds :
        /\ Completed(r)
        /\ Len(run[r].replies) = 2
        /\ run[r].replies[1].resp.kind = "reject"
        /\ run[r].replies[2].resp.kind = "badjson"
        /\ Len(run[r].results.errors) = 2
        /\ run[r].results.errors[2].row = 3

\* The first result of the answer to row k's request.
FirstResult(r, k) ==
    LET j == CHOOSE j \in DOMAIN run[r].replies : run[r].replies[j].row = k
    IN  run[r].replies[j].resp.results[1]

\* C7: in a completed run the output record of a row differs from its input
\* record exactly when the row was resolved, and then it is the input record
\* with Latitude and Longitude set to the first result's coordinates;
\* processedRows counts exactly the resolved rows.
C7_CoordinatesIffResolved ==
    \A r \in RunIds : Completed(r) =>
        /\ \A k \in DOMAIN run[r].data :
              LET in  == run[r].data[k]
                  out == run[r].processed[k]
              IN  IF ResolvedRow(r, k)
                  THEN /\ DOMAIN out = DOMAIN in \cup {"Latitude", "Longitude"}
                       /\ out["Latitude"] = Num(FirstResult(r, k).lat)
                       /\ out["Longitude"] = Num(FirstResult(r, k).lng)
                       /\ \A c \in OwnColumns(in) : out[c] = in[c]
                       /\ out # in
                  ELSE out = in
        /\ run[r].results.processedRows
             = Cardinality({k \in DOMAIN run[r].data : ResolvedRow(r, k)})

\* A completed run with a resolved row, a row without location, and a row
\* answered OK with no result.
C7_Witness ==
    \E r \in RunIds :
        /\ Completed(r)
        /\ Len(run[r].data) = MaxRows
        /\ ResolvedRow(r, 1)
        /\ run[r].processed[1]["Latitude"] = Num(1)
        /\ run[r].processed[1]["Longitude"] = Num(2)
        /\ NoComponent(r, 2)
        /\ Requested(r, 3)
        /\ ~ResolvedRow(r, 3)
        /\ run[r].results.errors = <<>>
        /\ run[r].results.processedRows = 1

\* The click found no column selected, or no API key.
BadConfig(sel, key) ==
    \/ (sel.addressCol = "" /\ sel.cityCol = "" /\ sel.countryCol = "")
    \/ key = ""

\* C8: a click that finds no column selected or an empty API key only sets
\* the error message: no closure is created, no request is issued, progress
\* and the processing flag stay as they are, and the published results and
\* geocodedData are left unchanged.
C8_ConfigErrorTouchesNothing ==
    [][\A sel \in Selections, key \in ApiKeys :
          (BadConfig(sel, key) /\ processFile(sel, key)) =>
              /\ error' \in {NoFileOrColumn, NoApiKey}
              /\ UNCHANGED <<file, processing, progress, results,
                             geocodedData, run, nRuns, inflight>>]_vars

\* A click without API key after a run has published: the message is shown,
\* the published tally and records are still there.
C8_Witness ==
    /\ error = NoApiKey
    /\ results # Null
    /\ geocodedData # Null
    /\ ~processing
    /\ inflight = {}

\* The closure is between its creation and its end.
Active(r) == run[r].pc \in {"parsing", "fetch", "delay"}

\* C9: at most one geocoding request is in flight and at most one run is in
\* progress (processing is set exactly then); within a run the requests are
\* issued in increasing row order, each only after every earlier one has
\* been answered, and the request in flight is the last one issued.
C9_OneRequestAtATime ==
    /\ Cardinality(inflight) <= 1
    /\ Cardinality({r \in RunIds : Active(r)}) <= 1
    /\ processing <=> \E r \in RunIds : Active(r)
    /\ \A q \in inflight :
          /\ run[q.run].pc = "fetch"
          /\ q = run[q.run].sent[Len(run[q.run].sent)]
    /\ \A r \in RunIds :
          /\ \A a, b \in DOMAIN run[r].sent :
                a < b => run[r].sent[a].row < run[r].sent[b].row
          /\ Len(run[r].sent)
               = Len(run[r].replies) + (IF run[r].pc = "fetch" THEN 1 ELSE 0)
          /\ \A j \in DOMAIN run[r].replies :
                run[r].replies[j].row = run[r].sent[j].row
          /\ run[r].pc = "fetch" =>
                \E q \in inflight : q.run = r /\ q.row = run[r].i + 1

\* The second run of a session waits for the answer to row 3 after row 1
\* was answered.
C9_Witness ==
    \E r \in RunIds :
        /\ nRuns = 2
        /\ run[r].pc = "fetch"
        /\ Len(run[r].replies) = 1
        /\ \E q \in inflight : q.run = r /\ q.row = 3

\* The step that ends run r in "done" publishes its tally and its records,
\* all rows handled, and clears the processing flag.
PublishesOnDone(r) ==
    (run[r].pc # "done" /\ run'[r].pc = "done") =>
        /\ results' = Some(run'[r].results)
        /\ geocodedData' = Some(run'[r].processed)
        /\ Len(run'[r].processed) = Len(run'[r].data)
        /\ ~processing'

\* C10 as claimed: every started run eventually signals completion by
\* publishing the tally and the augmented records.
C10_Original ==
    \A r \in RunIds : (run[r].pc = "parsing") ~> Completed(r)

\* C10 as amended: every started run eventually ends; a run that Papa.parse
\* has handed its rows goes on through them, whatever rows failed, and can
\* end only by completing, which publishes the tally and the records of all
\* its rows and clears the processing flag; only a run still waiting for
\* Papa.parse can end with the file error, which clears the processing flag
\* and publishes nothing.
C10_Amended ==
    /\ \A r \in RunIds : Active(r) ~> (Completed(r) \/ run[r].pc = "failed")
    /\ [][\A r \in RunIds :
             /\ run[r].pc \in {"fetch", "delay"} =>
                   /\ run'[r].pc \in {"fetch", "delay", "done"}
                   /\ Len(run'[r].processed) >= Len(run[r].processed)
                   /\ Len(run'[r].results.errors) >= Len(run[r].results.errors)
             /\ PublishesOnDone(r)
             /\ (run[r].pc # "failed" /\ run'[r].pc = "failed") =>
                   /\ run[r].pc = "parsing"
                   /\ ~processing'
                   /\ UNCHANGED <<results, geocodedData>>]_vars

\* A completed run whose first row failed and whose last row was resolved
\* all the same.
C10_Witness ==
    \E r \in RunIds :
        /\ Completed(r)
        /\ Len(run[r].data) = MaxRows
        /\ Len(run[r].results.errors) = 1
        /\ run[r].results.errors[1].row = 1
        /\ ResolvedRow(r, MaxRows)
        /\ results = Some(run[r].results)
        /\ ~processing

\* The progress value is 100.
Full(p) == p.num = 100 * p.den

\* Progress value p is below q.
Below(p, q) == p.num * q.den < q.num * p.den

\* C11 as claimed: the progress of every completed run, one over an empty
\* input included, has reached the full value.
C11_Original ==
    \A r \in RunIds : Completed(r) => Full(progress)

\* C11 as amended: from the start of a run on, progress is 0 until the first
\* row has been handled and then (rows handled so far) / totalRows, whatever
\* path each row took; every report is above the one before; progress is
\* full exactly when all rows of a non-empty input have been handled, and a
\* run over an empty input reports nothing and completes with progress 0.
C11_Amended ==
    /\ [](\A r \in RunIds : InLoop(r) =>
            /\ progress = (IF Len(run[r].processed) = 0
                           THEN [num |-> 0, den |-> 1]
                           ELSE [num |-> Len(run[r].processed) * 100,
                                 den |-> Len(run[r].data)])
            /\ Full(progress) <=>
                  (Len(run[r].data) > 0
                     /\ Len(run[r].processed) = Len(run[r].data)))
    /\ [][progress' # progress =>
             \/ progress' = [num |-> 0, den |-> 1] /\ nRuns' = nRuns + 1
             \/ /\ Below(progress, progress')
                /\ ~Full(progress)
                /\ \E r \in RunIds :
                      Len(run'[r].processed) = Len(run[r].processed) + 1]_vars

\* A run over three rows has completed with the progress full, its second
\* row having been skipped without a request.
C11_Witness ==
    \E r \in RunIds :
        /\ Completed(r)
        /\ Len(run[r].data) = MaxRows
        /\ ~Requested(r, 2)
        /\ progress = [num |-> MaxRows * 100, den |-> MaxRows]

\* C12 as claimed: a run waits for the 200 ms timer only after a row whose
\* request was issued.
C12_Original ==
    \A r \in RunIds : run[r].pc = "delay" => Requested(r, run[r].i + 1)

\* C12 as amended: the 200 ms timer is started after every row, whatever its
\* path (a row without location included, the last row included), and the
\* loop goes on to the next row, or to the publication, only when the timer
\* has fired.
C12_Amended ==
    [][\A r \in RunIds :
          /\ Len(run'[r].processed) > Len(run[r].processed) =>
                /\ run'[r].pc = "delay"
                /\ run'[r].i + 1 = Len(run'[r].processed)
          /\ (InLoop(r) /\ InLoop(r)' /\ run'[r].i # run[r].i) =>
                /\ run[r].pc = "delay"
                /\ run'[r].i = run[r].i + 1
          /\ (Len(run[r].data) > 0 /\ run[r].pc # "done"
                /\ run'[r].pc = "done") => run[r].pc = "delay"]_vars

\* The run waits for the timer after row 2, which has no location and for
\* which no request was issued.
C12_Witness ==
    \E r \in RunIds :
        /\ run[r].pc = "delay"
        /\ run[r].i = 1
        /\ NoComponent(r, 2)
        /\ ~Requested(r, 2)
        /\ Requested(r, 1)

\* The text a column contributes for a record: the cell's text, or nothing
\* when the column is not selected or the record has no such column.
Picked(row, col) ==
    IF col # "" /\ col \in DOMAIN row THEN row[col].s ELSE ""

\* x and y separated by a comma and a space, an empty one leaving no trace.
Sep(x, y) ==
    IF x = "" THEN y ELSE IF y = "" THEN x ELSE x \o ", " \o y

\* The query the claim describes for record k of run r.
ExpectedQuery(r, k) ==
    Sep(Sep(Picked(run[r].data[k], run[r].addressCol),
            Picked(run[r].data[k], run[r].cityCol)),
        Picked(run[r].data[k], run[r].countryCol))

\* C13: for every record and every column selection, the location sent to
\* the geocoding client is the ", "-separated concatenation of the values of
\* the columns that are selected and non-empty for the record, in the order
\* address, city, country, with no empty component; it is never empty, and a
\* handled record got a request exactly when that concatenation is not empty.
C13_QueryIsJoinOfSelected ==
    \A r \in RunIds :
        /\ \A j \in DOMAIN run[r].sent :
              /\ run[r].sent[j].address = ExpectedQuery(r, run[r].sent[j].row)
              /\ run[r].sent[j].address # ""
        /\ \A k \in DOMAIN run[r].processed :
              Requested(r, k) <=> ExpectedQuery(r, k) # ""

\* All three columns are selected and the record has no City column: the
\* query holds the address and the country only.
C13_Witness ==
    \E r \in RunIds :
        /\ run[r].addressCol = "Address"
        /\ run[r].cityCol = "City"
        /\ run[r].countryCol = "Country"
        /\ Len(run[r].sent) = 1
        /\ run[r].sent[1].address = "7 Pine Ct, France"
        /\ Completed(r)

\* Sequence s is a prefix of sequence t.
Prefix(s, t) == Len(s) <= Len(t) /\ SubSeq(t, 1, Len(s)) = s

\* C14: within one run at most one request is issued per row, and never
\* more requests than there are rows with a location; what a row's request
\* was answered and what the tally recorded for the row are never changed
\* afterwards: skippedRows, errors and the answers only grow at their end.
C14_NoRetry ==
    /\ [](\A r \in RunIds :
            /\ \A k \in DOMAIN run[r].data :
                  Cardinality({j \in DOMAIN run[r].sent :
                                  run[r].sent[j].row = k}) <= 1
            /\ Len(run[r].sent)
                 <= Cardinality({k \in DOMAIN run[r].data : ~NoComponent(r, k)})
            /\ \A j \in DOMAIN run[r].sent :
                  run[r].sent[j].row \in DOMAIN run[r].data)
    /\ [][\A r \in RunIds : (InLoop(r) /\ InLoop(r)') =>
             /\ Prefix(run[r].results.skippedRows, run'[r].results.skippedRows)
             /\ Prefix(run[r].results.errors, run'[r].results.errors)
             /\ Prefix(run[r].replies, run'[r].replies)
             /\ Prefix(run[r].sent, run'[r].sent)
             /\ Prefix(run[r].processed, run'[r].processed)]_vars

\* A completed run whose first request was answered ZERO_RESULTS: row 1 is
\* still skipped at the end, and two requests were issued for three rows.
C14_Witness ==
    \E r \in RunIds :
        /\ Completed(r)
        /\ Len(run[r].data) = MaxRows
        /\ Len(run[r].sent) = 2
        /\ HasStatus(run[r].replies[1].resp, "ZERO_RESULTS")
        /\ IsResolved(run[r].replies[2].resp)
        /\ run[r].results.skippedRows = <<1, 2>>

\* C15: between two consecutive requests of a run the 200 ms timer runs to
\* its end: a request that is not the first of its run is issued only by
\* the step in which the timer fires, and the timer it follows was started
\* after the answer to the request before it.
C15_DelayBetweenRequests ==
    [][\A r \in RunIds :
          (Len(run[r].sent) >= 1 /\ Len(run'[r].sent) > Len(run[r].sent)) =>
              /\ run[r].pc = "delay"
              /\ Len(run[r].replies) = Len(run[r].sent)
              /\ run'[r].pc = "fetch"]_vars

\* The second request of a run is in flight, the first one having failed.
C15_Witness ==
    \E r \in RunIds :
        /\ run[r].pc = "fetch"
        /\ Len(run[r].sent) = 2
        /\ Len(run[r].replies) = 1
        /\ CallFailed(run[r].replies[1].resp)
        /\ nRuns = 1
        /\ Cardinality(inflight) = 1

\* The row numbers of seq (of numbers, or of error entries) go up strictly.
Increasing(rows) ==
    \A a, b \in DOMAIN rows : a < b => rows[a] < rows[b]

\* C16: whenever k rows of a run have been handled to the end (0 <= k <=
\* totalRows), between rows as well as while the next request is awaited,
\* the output holds exactly k records, the j-th made from the j-th input
\* record, processedRows + |skippedRows| = k, every index in skippedRows and
\* errors is in 1..k, and both go up strictly.
C16_PartialStateValid ==
    \A r \in RunIds : InLoop(r) =>
        LET k   == Len(run[r].processed)
            res == run[r].results
        IN  /\ k <= Len(run[r].data)
            /\ res.totalRows = Len(run[r].data)
            /\ k = (IF run[r].pc = "delay" THEN run[r].i + 1 ELSE run[r].i)
            /\ \A j \in 1..k :
                  /\ OwnColumns(run[r].processed[j]) = OwnColumns(run[r].data[j])
                  /\ \A c \in OwnColumns(run[r].data[j]) :
                         run[r].processed[j][c] = run[r].data[j][c]
            /\ res.processedRows + Len(res.skippedRows) = k
            /\ \A j \in DOMAIN res.skippedRows : res.skippedRows[j] \in 1..k
            /\ \A j \in DOMAIN res.errors : res.errors[j].row \in 1..k
            /\ Increasing(res.skippedRows)
            /\ Increasing([j \in DOMAIN res.errors |-> res.errors[j].row])

\* Two of three rows are handled: row 1 resolved, row 2 skipped, and the
\* run waits for the timer before row 3.
C16_Witness ==
    \E r \in RunIds :
        /\ run[r].pc = "delay"
        /\ Len(run[r].data) = MaxRows
        /\ Len(run[r].processed) = 2
        /\ run[r].results.processedRows = 1
        /\ run[r].results.skippedRows = <<2>>

\* C17: results and geocodedData are null together or hold the tally and
\* the records of a run that has handled all of its rows; they change only
\* by being cleared or by the step that ends such a run.
C17_OnlyFinalPublished ==
    /\ []( /\ results = Null <=> geocodedData = Null
           /\ results # Null =>
                 /\ results[1].processedRows + Len(results[1].skippedRows)
                      = results[1].totalRows
                 /\ Len(geocodedData[1]) = results[1].totalRows )
    /\ [][(results' # results \/ geocodedData' # geocodedData) =>
             \/ results' = Null /\ geocodedData' = Null
             \/ \E r \in RunIds :
                   /\ run[r].pc # "done"
                   /\ run'[r].pc = "done"
                   /\ Len(run'[r].processed) = Len(run'[r].data)
                   /\ results' = Some(run'[r].results)
                   /\ geocodedData' = Some(run'[r].processed)]_vars

\* A second run has handled one of its three rows while the tally and the
\* records of the first run are still the published ones.
C17_Witness ==
    \E r \in RunIds :
        /\ nRuns = 2
        /\ Active(r)
        /\ Len(run[r].data) = MaxRows
        /\ Len(run[r].processed) = 1
        /\ results # Null
        /\ geocodedData # Null
        /\ results # Some(run[r].results)

\* C18: the published results and geocodedData are null or were computed
\* from the currently selected file: a run that has published was started on
\* the file that is selected now.
C18_PublishedFromCurrentFile ==
    \A r \in RunIds :
        (Completed(r) /\ results # Null /\ geocodedData # Null) =>
            run[r].file = file

====
